---- MODULE Spec2Model ----
(***************************************************************************)
(* Model of src/app.py: the Form AN whole-days-abroad absence calculator   *)
(* (date helpers, interval arithmetic, window totals, presence check),     *)
(* the credential resolution of the trip loader and the module-level       *)
(* eligibility computation.                                                *)
(*                                                                         *)
(* A date is the triple <<year, month, day>> of datetime.date.  Dates are  *)
(* ordered field by field, as datetime.date orders them; arithmetic with a *)
(* timedelta goes through the proleptic Gregorian ordinal and back, as     *)
(* datetime.date does it, and fails outside 0001-01-01 .. 9999-12-31.      *)
(*                                                                         *)
(* A call that may raise yields Ret(v) or Raise(e).                        *)
(*                                                                         *)
(* SpecCore is one call of a core function on any input of the input sets. *)
(* Spec is one run of the script: settings, application date, loader,      *)
(* eligibility signals.  A worksheet cell is modelled by what              *)
(* safe_parse_date makes of it (a date or None); the 60 s cache of the     *)
(* loader and the rendering are left out.                                  *)
(***************************************************************************)
EXTENDS Integers, Sequences, FiniteSets, TLC

VARIABLES
    call,            \* core harness: the last call of a core function
    pc,              \* position of the script run
    sheet_id,        \* SHEET_ID is set (line 48)
    secrets,         \* st.secrets["gcp_service_account"]
    envjson,         \* SERVICE_ACCOUNT_JSON_ENV
    credfile,        \* the file at CREDENTIALS_JSON_PATH
    creds,           \* what build_credentials() produced
    app_date,        \* st.date_input(...)
    trips_df,        \* the loaded trips
    signals          \* abs_12m, abs_5y, present_5y_ago, OK_12M, OK_5Y

vars == <<call, pc, sheet_id, secrets, envjson, credfile, creds, app_date,
          trips_df, signals>>

appvars == <<pc, sheet_id, secrets, envjson, credfile, creds, app_date,
             trips_df, signals>>

----------------------------------------------------------------------------
(* Bounds of the model *)

Span == 3        \* the day cluster holds Span + 1 consecutive days
MaxTrips == 2    \* longest trip list handed to the core functions
MaxYears == 5    \* largest n of years_ago(d, n) that is tried
MaxRows == 2     \* longest worksheet the loader reads

----------------------------------------------------------------------------
(* Outcomes of a call *)

Ret(v) == [raised |-> FALSE, exc |-> "", val |-> v]

Raise(e) == [raised |-> TRUE, exc |-> e]

None == <<>>

Max2(a, b) == IF a >= b THEN a ELSE b

----------------------------------------------------------------------------
(* datetime.date *)

date_min == <<1, 1, 1>>

date_max == <<9999, 12, 31>>

IsLeap(y) == y % 4 = 0 /\ (y % 100 # 0 \/ y % 400 = 0)

DaysInMonth(y, m) ==
    IF m = 2 THEN (IF IsLeap(y) THEN 29 ELSE 28)
    ELSE IF m \in {4, 6, 9, 11} THEN 30 ELSE 31

DaysBeforeMonth(y, m) ==
    <<0, 31, 59, 90, 120, 151, 181, 212, 243, 273, 304, 334>>[m]
        + (IF m > 2 /\ IsLeap(y) THEN 1 ELSE 0)

DaysBeforeYear(y) ==
    LET z == y - 1 IN z * 365 + (z \div 4) - (z \div 100) + (z \div 400)

toordinal(d) == DaysBeforeYear(d[1]) + DaysBeforeMonth(d[1], d[2]) + d[3]

MaxOrdinal == toordinal(date_max)

\* date.fromordinal, by the 400/100/4/1-year cycle decomposition
fromordinal(n) ==
    LET n0   == n - 1
        n400 == n0 \div 146097
        r400 == n0 % 146097
        n100 == r400 \div 36524
        r100 == r400 % 36524
        n4   == r100 \div 1461
        r4   == r100 % 1461
        n1   == r4 \div 365
        r1   == r4 % 365
        year == n400 * 400 + 1 + n100 * 100 + n4 * 4 + n1
    IN  IF n1 = 4 \/ n100 = 4
        THEN <<year - 1, 12, 31>>
        ELSE LET m0    == (r1 + 50) \div 32
                 pre0  == DaysBeforeMonth(year, m0)
                 month == IF pre0 > r1 THEN m0 - 1 ELSE m0
                 pre   == IF pre0 > r1 THEN pre0 - DaysInMonth(year, m0 - 1)
                                       ELSE pre0
             IN  <<year, month, r1 - pre + 1>>

\* a < b on dates: year, then month, then day
DateLT(a, b) ==
    \/ a[1] < b[1]
    \/ a[1] = b[1] /\ a[2] < b[2]
    \/ a[1] = b[1] /\ a[2] = b[2] /\ a[3] < b[3]

DateLE(a, b) == a = b \/ DateLT(a, b)

\* d + timedelta(days=k)
date_add_days(d, k) ==
    LET o == toordinal(d) + k
    IN  IF 0 < o /\ o <= MaxOrdinal THEN Ret(fromordinal(o))
        ELSE Raise("OverflowError")

\* d.replace(year=y, month=m, day=dd)
date_replace(y, m, dd) ==
    IF y < 1 \/ y > 9999 THEN Raise("ValueError")
    ELSE IF m < 1 \/ m > 12 THEN Raise("ValueError")
    ELSE IF dd < 1 \/ dd > DaysInMonth(y, m) THEN Raise("ValueError")
    ELSE Ret(<<y, m, dd>>)

\* isinstance(x, date)
isinstance_date(x) == Len(x) = 3

----------------------------------------------------------------------------
(* Date helpers and the counting rule *)

\* the fallback for a missing 29 February taken as 1 March
years_ago_first_of_march(d, years) ==
    LET try == date_replace(d[1] - years, d[2], d[3])
    IN  IF ~try.raised THEN try
        ELSE date_replace(d[1] - years, 3, 1)

years_ago(d, years) ==
    LET try == date_replace(d[1] - years, d[2], d[3])
    IN  IF ~try.raised THEN try
        ELSE date_replace(d[1] - years, 2, 28)

one_year_ago(d) == years_ago(d, 1)

\* the return day counted as a day abroad
whole_days_abroad_counting_return_day(leave, ret) ==
    IF DateLE(ret, leave) THEN 0
    ELSE Max2(0, toordinal(ret) - toordinal(leave))

whole_days_abroad(leave, ret) ==
    IF DateLE(ret, leave) THEN 0
    ELSE Max2(0, (toordinal(ret) - toordinal(leave)) - 1)

countable_interval(leave, ret) ==
    LET start == date_add_days(leave, 1)
        end   == date_add_days(ret, -1)
    IN  IF start.raised THEN start
        ELSE IF end.raised THEN end
        ELSE IF DateLT(end.val, start.val) THEN Ret(None)
        ELSE Ret(<<start.val, end.val>>)

\* min and max exchanged: the span of the two ranges
interval_overlap_widest(a_start, a_end, b_start, b_end) ==
    LET s == IF DateLT(a_start, b_start) THEN a_start ELSE b_start
        e == IF DateLT(b_end, a_end) THEN a_end ELSE b_end
    IN  IF DateLT(e, s) THEN None ELSE <<s, e>>

interval_overlap(a_start, a_end, b_start, b_end) ==
    LET s == IF DateLT(a_start, b_start) THEN b_start ELSE a_start
        e == IF DateLT(b_end, a_end) THEN b_end ELSE a_end
    IN  IF DateLT(e, s) THEN None ELSE <<s, e>>

\* the loop with "continue" taken as "break": it ends at the first trip that
\* contributes nothing
RECURSIVE count_loop_stopping(_, _, _, _, _)
count_loop_stopping(trips, i, total, window_start, window_end) ==
    IF i > Len(trips) THEN Ret(total)
    ELSE LET leave == trips[i].start_date
             ret   == trips[i].end_date
         IN  IF ~isinstance_date(leave) \/ ~isinstance_date(ret)
             THEN Ret(total)
             ELSE LET ci == countable_interval(leave, ret)
                  IN  IF ci.raised THEN ci
                      ELSE IF ci.val = None THEN Ret(total)
                      ELSE LET ov == interval_overlap(ci.val[1], ci.val[2],
                                                      window_start, window_end)
                           IN  IF ov = None THEN Ret(total)
                               ELSE count_loop_stopping(trips, i + 1,
                                        total + (toordinal(ov[2]) - toordinal(ov[1])) + 1,
                                        window_start, window_end)

\* the loop of count_absences_in_window from row i on, with the running total
RECURSIVE count_loop(_, _, _, _, _)
count_loop(trips, i, total, window_start, window_end) ==
    IF i > Len(trips) THEN Ret(total)
    ELSE LET leave == trips[i].start_date
             ret   == trips[i].end_date
         IN  IF ~isinstance_date(leave) \/ ~isinstance_date(ret)
             THEN count_loop(trips, i + 1, total, window_start, window_end)
             ELSE LET ci == countable_interval(leave, ret)
                  IN  IF ci.raised THEN ci
                      ELSE IF ci.val = None
                      THEN count_loop(trips, i + 1, total, window_start, window_end)
                      ELSE LET ov == interval_overlap(ci.val[1], ci.val[2],
                                                      window_start, window_end)
                           IN  IF ov = None
                               THEN count_loop(trips, i + 1, total,
                                               window_start, window_end)
                               ELSE count_loop(trips, i + 1,
                                        total + (toordinal(ov[2]) - toordinal(ov[1])) + 1,
                                        window_start, window_end)

count_absences_in_window(trips, window_start, window_end) ==
    count_loop(trips, 1, 0, window_start, window_end)

\* the departure day taken as a day abroad (leave <= d)
RECURSIVE in_uk_loop_counting_departure_day(_, _, _)
in_uk_loop_counting_departure_day(trips, i, d) ==
    IF i > Len(trips) THEN TRUE
    ELSE IF DateLE(trips[i].start_date, d) /\ DateLT(d, trips[i].end_date) THEN FALSE
    ELSE in_uk_loop_counting_departure_day(trips, i + 1, d)

\* the loop of is_in_uk_on_day from row i on
RECURSIVE in_uk_loop(_, _, _)
in_uk_loop(trips, i, d) ==
    IF i > Len(trips) THEN TRUE
    ELSE IF DateLT(trips[i].start_date, d) /\ DateLT(d, trips[i].end_date) THEN FALSE
    ELSE in_uk_loop(trips, i + 1, d)

is_in_uk_on_day(trips, d) == in_uk_loop(trips, 1, d)

----------------------------------------------------------------------------
(* Inputs of the core functions *)

ClusterBase == <<2024, 2, 27>>

ClusterDay(i) == fromordinal(toordinal(ClusterBase) + i)

\* consecutive days across 29 February and the end of the month
Cluster == {ClusterDay(i) : i \in 0..Span}

ClusterEnd == ClusterDay(Span)

CoreDates == Cluster \cup {date_min, date_max}

Row(leave, ret) == [start_date |-> leave, end_date |-> ret]

\* trips from the first day of the cluster to each of its days (the same day,
\* the next day, then one more whole day each), a later trip, an inverted
\* trip, and trips that touch the ends of the date range
TripRows ==
    {Row(ClusterBase, ret) : ret \in Cluster}
        \cup {Row(ClusterDay(1), ClusterEnd), Row(ClusterEnd, ClusterBase)}
        \cup {Row(date_max, ClusterBase), Row(ClusterBase, date_min),
              Row(date_min, date_max)}

TripLists == UNION {[1..n -> TripRows] : n \in 0..MaxTrips}

YearDates ==
    {<<2024, 2, 29>>, <<2024, 2, 28>>, <<2024, 3, 1>>, <<2024, 6, 15>>,
     <<2023, 12, 31>>, <<2104, 2, 29>>, <<2004, 2, 29>>, <<4, 2, 29>>,
     <<3, 6, 15>>, date_min, date_max}

YearCounts == (0 - 1)..MaxYears

Permuted(trips, p) == [i \in 1..Len(trips) |-> trips[p[i]]]

Called(op, args, result) == [op |-> op, args |-> args, result |-> result]

----------------------------------------------------------------------------
(* The core functions: one call, on any input of the sets above *)

NoCall == Called("", <<>>, Ret(0))

CallWholeDaysAbroad ==
    /\ call = NoCall
    /\ \E leave, ret \in CoreDates :
           call' = Called("whole_days_abroad", <<leave, ret>>,
                          Ret(whole_days_abroad(leave, ret)))
    /\ UNCHANGED appvars

CallCountableInterval ==
    /\ call = NoCall
    /\ \E leave, ret \in CoreDates :
           call' = Called("countable_interval", <<leave, ret>>,
                          countable_interval(leave, ret))
    /\ UNCHANGED appvars

CallIntervalOverlap ==
    /\ call = NoCall
    /\ \E a_start, a_end, b_start, b_end \in CoreDates :
           call' = Called("interval_overlap", <<a_start, a_end, b_start, b_end>>,
                          Ret(interval_overlap(a_start, a_end, b_start, b_end)))
    /\ UNCHANGED appvars

CallCountAbsencesInWindow ==
    /\ call = NoCall
    /\ \E trips \in TripLists : \E window_start, window_end \in Cluster :
           call' = Called("count_absences_in_window",
                          <<trips, window_start, window_end>>,
                          count_absences_in_window(trips, window_start, window_end))
    /\ UNCHANGED appvars

CallIsInUkOnDay ==
    /\ call = NoCall
    /\ \E trips \in TripLists : \E d \in CoreDates :
           call' = Called("is_in_uk_on_day", <<trips, d>>,
                          Ret(is_in_uk_on_day(trips, d)))
    /\ UNCHANGED appvars

CallYearsAgo ==
    /\ call = NoCall
    /\ \E d \in YearDates : \E years \in YearCounts :
           call' = Called("years_ago", <<d, years>>, years_ago(d, years))
    /\ UNCHANGED appvars

NoSignals == [computed |-> FALSE]

InitCore ==
    /\ call = NoCall
    /\ pc = "start"
    /\ sheet_id = TRUE
    /\ secrets = "absent"
    /\ envjson = "empty"
    /\ credfile = "absent"
    /\ creds = Ret("unset")
    /\ app_date = None
    /\ trips_df = <<>>
    /\ signals = NoSignals

NextCore ==
    \/ CallWholeDaysAbroad
    \/ CallCountableInterval
    \/ CallIntervalOverlap
    \/ CallCountAbsencesInWindow
    \/ CallIsInUkOnDay
    \/ CallYearsAgo

SpecCore == InitCore /\ [][NextCore]_vars

----------------------------------------------------------------------------
(* Google auth and the trip loader *)

SecretsStates == {"nofile", "absent", "valid", "invalid"}

EnvJsonStates == {"empty", "valid", "invalid"}

CredFileStates == {"absent", "valid", "invalid"}

\* sec: "nofile" (reading st.secrets raises), "absent" (no gcp_service_account
\* table), "valid", "invalid" (from_service_account_info raises);
\* env: the stripped GCP_SERVICE_ACCOUNT_JSON; file: the credentials file
build_credentials(sec, env, file) ==
    IF sec = "valid" THEN Ret("Credentials(secrets)")
    ELSE IF env # "empty"
         THEN (IF env = "valid" THEN Ret("Credentials(env)") ELSE Ret("None"))
    ELSE IF file # "absent"
         THEN (IF file = "valid" THEN Ret("Credentials(file)")
               ELSE Raise("ValueError"))
    ELSE Ret("None")

\* a worksheet row after safe_parse_date: a date, or None for a cell that
\* neither format parses
SheetCells(leave, days) == Row(leave, fromordinal(toordinal(leave) + days))

SheetRows ==
    {SheetCells(<<2024, 1, 1>>, 91), SheetCells(<<2024, 1, 1>>, 92),
     SheetCells(<<2020, 1, 1>>, 451), SheetCells(<<2020, 1, 1>>, 452),
     SheetCells(<<2019, 6, 10>>, 10), SheetCells(<<2019, 6, 15>>, 5),
     Row(None, <<2024, 1, 5>>), Row(date_max, <<2024, 1, 1>>)}

Sheets == UNION {[1..n -> SheetRows] : n \in 0..MaxRows}

AppDates == {<<2024, 6, 15>>, <<2024, 2, 29>>, <<3, 1, 1>>}

\* df.dropna(subset=["start_date", "end_date"])
RECURSIVE dropna(_)
dropna(rows) ==
    IF rows = <<>> THEN <<>>
    ELSE IF Head(rows).start_date = None \/ Head(rows).end_date = None
         THEN dropna(Tail(rows))
         ELSE <<Head(rows)>> \o dropna(Tail(rows))

\* df.sort_values("start_date", ascending=False): every order of the rows that
\* is latest first (rows of one start_date in either order)
sort_values_latest_first(rows) ==
    {Permuted(rows, p) : p \in
        {q \in Permutations(1..Len(rows)) :
            \A i \in 1..(Len(rows) - 1) :
                DateLE(rows[q[i + 1]].start_date, rows[q[i]].start_date)}}

\* df["days_absent"] = whole_days_abroad per row
with_days_absent(rows) ==
    [i \in 1..Len(rows) |->
        [start_date |-> rows[i].start_date, end_date |-> rows[i].end_date,
         days_absent |-> whole_days_abroad(rows[i].start_date, rows[i].end_date)]]

\* the frames load_trips_df can return for a worksheet with the date columns
load_trips_df(sheet) ==
    {with_days_absent(t) : t \in sort_values_latest_first(dropna(sheet))}

----------------------------------------------------------------------------
(* Eligibility signals *)

\* the threshold taken as exclusive
ok_12m_below(abs_12m) == abs_12m < 90

ok_12m(abs_12m) == abs_12m <= 90

ok_5y(abs_5y) == abs_5y <= 450

----------------------------------------------------------------------------
(* One run of the script *)

\* lines 263-266
CheckSheetId ==
    /\ pc = "start"
    /\ pc' = IF sheet_id THEN "date_input" ELSE "stopped"
    /\ UNCHANGED <<call, sheet_id, secrets, envjson, credfile, creds, app_date,
                   trips_df, signals>>

\* lines 268-275
DateInput ==
    /\ pc = "date_input"
    /\ app_date' \in AppDates
    /\ pc' = "load"
    /\ UNCHANGED <<call, sheet_id, secrets, envjson, credfile, creds, trips_df,
                   signals>>

\* lines 277-282 with load_trips_df: the credentials, then the worksheet
LoadTrips ==
    /\ pc = "load"
    /\ creds' = build_credentials(secrets, envjson, credfile)
    /\ IF creds'.raised \/ creds'.val = "None"
       THEN pc' = "stopped" /\ trips_df' = <<>>
       ELSE \E fetch \in {"unavailable", "no_columns", "ok"} : \E sheet \in Sheets :
               \/ /\ fetch = "unavailable"
                  /\ sheet = <<>>
                  /\ pc' = "stopped" /\ trips_df' = <<>>
               \/ /\ fetch = "no_columns"
                  /\ pc' = (IF sheet = <<>> THEN "compute" ELSE "stopped")
                  /\ trips_df' = <<>>
               \/ /\ fetch = "ok"
                  /\ pc' = "compute"
                  /\ trips_df' \in load_trips_df(sheet)
    /\ UNCHANGED <<call, sheet_id, secrets, envjson, credfile, app_date, signals>>

\* lines 284-297
ComputeEligibility ==
    /\ pc = "compute"
    /\ LET window_end       == app_date
           window_12m_start == one_year_ago(app_date)
           window_5y_start  == years_ago(app_date, 5)
       IN  IF window_12m_start.raised \/ window_5y_start.raised
           THEN pc' = "crashed" /\ signals' = NoSignals
           ELSE LET abs_12m == count_absences_in_window(trips_df,
                                   window_12m_start.val, window_end)
                    abs_5y  == count_absences_in_window(trips_df,
                                   window_5y_start.val, window_end)
                    five_years_ago_day == years_ago(app_date, 5)
                IN  IF abs_12m.raised \/ abs_5y.raised
                    THEN pc' = "crashed" /\ signals' = NoSignals
                    ELSE /\ pc' = "done"
                         /\ signals' =
                               [computed |-> TRUE,
                                abs_12m |-> abs_12m.val,
                                abs_5y |-> abs_5y.val,
                                five_years_ago_day |-> five_years_ago_day.val,
                                present_5y_ago |->
                                    is_in_uk_on_day(trips_df, five_years_ago_day.val),
                                OK_12M |-> ok_12m(abs_12m.val),
                                OK_5Y |-> ok_5y(abs_5y.val)]
    /\ UNCHANGED <<call, sheet_id, secrets, envjson, credfile, creds, app_date,
                   trips_df>>

Init ==
    /\ call = NoCall
    /\ pc = "start"
    /\ sheet_id \in BOOLEAN
    /\ secrets \in SecretsStates
    /\ envjson \in EnvJsonStates
    /\ credfile \in CredFileStates
    /\ creds = Ret("unset")
    /\ app_date = None
    /\ trips_df = <<>>
    /\ signals = NoSignals

Next ==
    \/ CheckSheetId
    \/ DateInput
    \/ LoadTrips
    \/ ComputeEligibility

Spec == Init /\ [][Next]_vars

----------------------------------------------------------------------------
(* What the claims are stated in: whole numbers of days *)

\* b - a in days
DaysFrom(a, b) == toordinal(b) - toordinal(a)

\* lo <= d <= hi by day number
Within(d, lo, hi) == toordinal(lo) <= toordinal(d) /\ toordinal(d) <= toordinal(hi)

\* the days d of the window with leave < d < ret
DaysAbroadInWindow(row, window_start, window_end) ==
    Cardinality({o \in toordinal(window_start)..toordinal(window_end) :
                    toordinal(row.start_date) < o /\ o < toordinal(row.end_date)})

RECURSIVE SumDaysAbroad(_, _, _, _)
SumDaysAbroad(trips, i, window_start, window_end) ==
    IF i > Len(trips) THEN 0
    ELSE DaysAbroadInWindow(trips[i], window_start, window_end)
            + SumDaysAbroad(trips, i + 1, window_start, window_end)

\* the days a claim about "every day" is tried on: the inputs and their neighbours
ProbeDays ==
    CoreDates \cup {fromordinal(toordinal(d) + k) : d \in Cluster, k \in {0 - 1, 1}}

SameOutcome(a, b) == a.raised = b.raised /\ (~a.raised => a.val = b.val)

\* a + b of two totals, raising when either raised
PlusOutcome(a, b) ==
    IF a.raised THEN a ELSE IF b.raised THEN b ELSE Ret(a.val + b.val)

\* a trip one end of which is an end of the date range
AtRangeEnd(leave, ret) == leave = date_max \/ ret = date_min

----------------------------------------------------------------------------
(* Claims about the core functions, checked under SpecCore *)

\* C1: whole_days_abroad(leave, ret) is 0 when ret <= leave and otherwise
\* (ret - leave in days) - 1, that is n - 1 for ret = leave + n with n >= 1;
\* it is never negative.
C1_WholeDaysAbroad ==
    call.op = "whole_days_abroad" =>
        LET n == DaysFrom(call.args[1], call.args[2])
        IN  /\ ~call.result.raised
            /\ call.result.val = (IF n <= 0 THEN 0 ELSE n - 1)
            /\ (n <= 1 => call.result.val = 0)
            /\ call.result.val >= 0

C1_Witness ==
    /\ call.op = "whole_days_abroad"
    /\ DaysFrom(call.args[1], call.args[2]) = 3
    /\ call.result.val = 2

\* C2 as stated: for all dates, countable_interval is None exactly when
\* whole_days_abroad is 0, and otherwise it is (leave + 1 day, ret - 1 day), of
\* inclusive length whole_days_abroad(leave, ret).
C2_CountableInterval ==
    call.op = "countable_interval" =>
        LET leave == call.args[1]
            ret   == call.args[2]
            w     == whole_days_abroad(leave, ret)
        IN  /\ ~call.result.raised
            /\ (call.result.val = None) <=> (w = 0)
            /\ call.result.val # None =>
                   /\ DaysFrom(leave, call.result.val[1]) = 1
                   /\ DaysFrom(call.result.val[2], ret) = 1
                   /\ DaysFrom(call.result.val[1], call.result.val[2]) + 1 = w

\* C2 away from the ends of the date range: the same statement for every trip
\* that neither leaves on 9999-12-31 nor returns on 0001-01-01.
C2_AwayFromRangeEnds ==
    (call.op = "countable_interval" /\ ~AtRangeEnd(call.args[1], call.args[2]))
        => C2_CountableInterval

\* C3: interval_overlap returns the intersection of [a_start, a_end] and
\* [b_start, b_end]: a day lies in the result iff it lies in both ranges, and the
\* result is None iff no day does.
C3_IntervalOverlap ==
    call.op = "interval_overlap" =>
        LET InBoth(d) == /\ Within(d, call.args[1], call.args[2])
                         /\ Within(d, call.args[3], call.args[4])
            r == call.result.val
        IN  /\ ~call.result.raised
            /\ (r = None) <=> ~(\E d \in ProbeDays : InBoth(d))
            /\ r # None =>
                   \A d \in ProbeDays : Within(d, r[1], r[2]) <=> InBoth(d)

C3_Witness ==
    /\ call.op = "interval_overlap"
    /\ DateLT(call.args[1], call.args[3])
    /\ DateLT(call.args[3], call.args[2])
    /\ DateLT(call.args[2], call.args[4])
    /\ call.result.val = <<call.args[3], call.args[2]>>

\* C4 as stated: for every trip list with valid dates and every window,
\* count_absences_in_window returns the sum over the trips of the number of
\* window days d with leave < d < ret, an integer >= 0.
C4_CountAbsencesInWindow ==
    call.op = "count_absences_in_window" =>
        /\ ~call.result.raised
        /\ call.result.val = SumDaysAbroad(call.args[1], 1, call.args[2], call.args[3])
        /\ call.result.val >= 0

\* C4 away from the ends of the date range: the same statement for the trip
\* lists no trip of which leaves on 9999-12-31 or returns on 0001-01-01.
C4_AwayFromRangeEnds ==
    (/\ call.op = "count_absences_in_window"
     /\ \A i \in 1..Len(call.args[1]) :
            ~AtRangeEnd(call.args[1][i].start_date, call.args[1][i].end_date))
        => C4_CountAbsencesInWindow

\* C5: for a fixed window the total of a concatenation is the sum of the totals
\* of its parts, and every permutation of a trip list has the same total (a
\* call that raises on one side raises on the other); nothing is deduplicated.
C5_AdditiveOrderIndependent ==
    call.op = "count_absences_in_window" =>
        LET trips == call.args[1]
            Total(t) == count_absences_in_window(t, call.args[2], call.args[3])
        IN  /\ \A k \in 0..Len(trips) :
                   SameOutcome(call.result,
                               PlusOutcome(Total(SubSeq(trips, 1, k)),
                                           Total(SubSeq(trips, k + 1, Len(trips)))))
            /\ \A p \in Permutations(1..Len(trips)) :
                   SameOutcome(call.result, Total(Permuted(trips, p)))

\* two trips over the same days: the total exceeds the days of the window
C5_Witness ==
    /\ call.op = "count_absences_in_window"
    /\ Len(call.args[1]) = 2
    /\ ~call.result.raised
    /\ DateLE(call.args[2], call.args[3])
    /\ call.result.val > DaysFrom(call.args[2], call.args[3]) + 1

\* C6: is_in_uk_on_day(trips, d) is false iff some trip has leave < d < ret,
\* both strictly; it is true otherwise, also for no trips.
C6_IsInUkOnDay ==
    call.op = "is_in_uk_on_day" =>
        LET trips == call.args[1]
            d     == call.args[2]
        IN  /\ ~call.result.raised
            /\ call.result.val =
                   ~(\E i \in 1..Len(trips) :
                        /\ toordinal(trips[i].start_date) < toordinal(d)
                        /\ toordinal(d) < toordinal(trips[i].end_date))

\* on the departure day of a trip with whole days abroad: in the UK
C6_Witness ==
    /\ call.op = "is_in_uk_on_day"
    /\ Len(call.args[1]) = 1
    /\ call.args[2] = call.args[1][1].start_date
    /\ DaysFrom(call.args[1][1].start_date, call.args[1][1].end_date) >= 2
    /\ call.result.val = TRUE

\* the date of the same month and day in year y, 28 February for a 29 February
\* that year y does not have
SameDayInYear(d, y) ==
    IF d[2] = 2 /\ d[3] = 29 /\ ~IsLeap(y) THEN <<y, 2, 28>> ELSE <<y, d[2], d[3]>>

C8_NeverRaises ==
    call.op \in {"whole_days_abroad", "countable_interval", "interval_overlap",
                 "count_absences_in_window", "is_in_uk_on_day", "years_ago"}
        => ~call.result.raised

----------------------------------------------------------------------------
(* Claims about the script run, checked under Spec *)

\* C9: for every application date A and trip list, OK_12M is true iff
\* count_absences_in_window(trips, years_ago(A, 1), A) <= 90, OK_5Y is true iff
\* count_absences_in_window(trips, years_ago(A, 5), A) <= 450, and the presence
\* signal is is_in_uk_on_day(trips, years_ago(A, 5)); the run ends without
\* signals exactly when one of these calls raises.
C9_EligibilitySignals ==
    pc \in {"done", "crashed"} =>
        LET start_12m == years_ago(app_date, 1)
            start_5y  == years_ago(app_date, 5)
        IN  IF start_12m.raised \/ start_5y.raised
            THEN pc = "crashed" /\ ~signals.computed
            ELSE LET total_12m == count_absences_in_window(trips_df,
                                      start_12m.val, app_date)
                     total_5y  == count_absences_in_window(trips_df,
                                      start_5y.val, app_date)
                 IN  IF total_12m.raised \/ total_5y.raised
                     THEN pc = "crashed" /\ ~signals.computed
                     ELSE /\ pc = "done"
                          /\ signals.computed
                          /\ signals.OK_12M = (total_12m.val <= 90)
                          /\ signals.OK_5Y = (total_5y.val <= 450)
                          /\ signals.present_5y_ago =
                                 is_in_uk_on_day(trips_df, start_5y.val)

\* application date 2024-06-15 and 91 days absent since 2023-06-15: not OK
C9_Witness ==
    /\ pc = "done"
    /\ app_date = <<2024, 6, 15>>
    /\ signals.abs_12m = 91
    /\ signals.OK_12M = FALSE

\* C10 as stated: whenever one of the credential sources (secrets table, JSON
\* in the environment, credentials file) would yield valid credentials,
\* build_credentials returns credentials, also after an earlier source that is
\* present but invalid.
C10_CredentialFallback ==
    (/\ creds.raised \/ creds.val # "unset"
     /\ secrets = "valid" \/ envjson = "valid" \/ credfile = "valid")
        => (~creds.raised /\ creds.val # "None")

\* what build_credentials does: credentials iff the secrets table is valid,
\* or else the JSON is valid, or else the JSON is empty and the file is valid.
C10_FirstConfiguredSource ==
    (creds.raised \/ creds.val # "unset") =>
        ((~creds.raised /\ creds.val # "None")
            <=> \/ secrets = "valid"
                \/ envjson = "valid"
                \/ envjson = "empty" /\ credfile = "valid")

====
